---- MODULE Spec2Model ----
(***************************************************************************)
(* A model of image_processor.py.                                          *)
(*                                                                         *)
(* Spec        process_image run on a small file system (one run of main)  *)
(* SpecResize  resize_cover on bounded image and target sizes              *)
(* SpecBlend   apply_multiply_blend on pairs of 8-bit channel values       *)
(* SpecCoeffs  find_perspective_coeffs on bounded corner sets              *)
(*                                                                         *)
(* Python floats are IEEE-754 binary64 values.  They are modelled exactly  *)
(* (53-bit significand as a bit sequence, round to nearest even), because  *)
(* the code truncates float results to integers.                           *)
(***************************************************************************)
EXTENDS Integers, Sequences, FiniteSets

VARIABLES
    \* ---- process_image -------------------------------------------------
    fs,               \* the file system: path -> content (Absent when no file)
    fs0,              \* the file system when the run started (never changes)
    script_dir,       \* directory holding the three templates
    input_path,       \* the input image's path
    pc,               \* position of the run inside process_image
    fg_img,           \* the decoded input image (NoImage before it is loaded)
    centered_artwork, \* the decoded output.png (NoImage before it is loaded)
    output_files,     \* the list process_image appends output paths to
    result,           \* what process_image returned (NoResult before it returns)
    attempted,        \* templates create_multiplied_image was called for
    succeeded,        \* templates create_multiplied_image returned True for
    removed_after,    \* the value of `attempted` when os.remove deleted output.png
    \* ---- pure functions ------------------------------------------------
    args,             \* the arguments of the function under study
    ret               \* its return value (NoRet before the call)

vars == <<fs, fs0, script_dir, input_path, pc, fg_img, centered_artwork,
          output_files, result, attempted, succeeded, removed_after, args, ret>>

pipeVars == <<fs, fs0, script_dir, input_path, pc, fg_img, centered_artwork,
              output_files, result, attempted, succeeded, removed_after>>

NoRet == [kind |-> "none"]
NoArgs == [kind |-> "none"]

(***************************************************************************)
(* The file system                                                         *)
(***************************************************************************)
Absent == "absent"      \* os.path.exists(path) is False
Junk == "junk"          \* a file PIL cannot decode
Img0 == "img0"          \* a decodable image that was there before the run
NoImage == "noimage"
NoResult == [returned |-> FALSE]

OutDir == "out"
OtherDir == "tpl"
Dirs == {OutDir, OtherDir}

TemplateNames == <<"show.png", "show2.jpg", "show3.png">>
OutputNames == <<"show.png", "show2.png", "show3.png">>
Names == {"art.png", "output.png", "print.png", "show.png", "show2.jpg",
          "show2.png", "show3.png"}
Paths == Dirs \X Names

\* os.path.join(folder, name)
Join(folder, name) == <<folder, name>>

\* os.path.exists(path)
Exists(f, path) == f[path] # Absent

\* Image.open(path).convert('RGB') succeeds
Decodable(c) == c \notin {Absent, Junk}

\* process_image, lines 271-273 and 276: the template paths in checking order
TemplatePath(dir, t) == Join(dir, TemplateNames[t])

\* process_image, lines 307, 317, 328
OutputPath(t) == Join(OutDir, OutputNames[t])

\* The artefacts a run writes into the output folder (lines 145-146, 307, 317, 328)
ArtifactNames == {"output.png", "print.png", "show.png", "show2.png", "show3.png"}

OutputPngPath == Join(OutDir, "output.png")
PrintPngPath == Join(OutDir, "print.png")

\* Contents the run writes
Centered == "centered"                 \* img_final.save(output_path)
Bordered == "bordered"                      \* canvas.save(bordered_output_path)
Mult(t) == <<"mult1", "mult2", "mult3">>[t]   \* final_image.save(output_path)

Templates == 1..3

\* The file system main() can start process_image on: the input file exists
\* (os.path.isfile / os.listdir), each template is missing, undecodable or an
\* image, and the output folder may hold the artefacts of an earlier run.
InitialFs(inp, dir, inc, tplc, stale) ==
    [p \in Paths |->
        IF p = inp THEN inc
        ELSE IF \E t \in Templates : p = TemplatePath(dir, t)
             THEN tplc[CHOOSE t \in Templates : p = TemplatePath(dir, t)]
        ELSE IF stale /\ p[1] = OutDir /\ p[2] \in ArtifactNames THEN Img0
        ELSE Absent]

IdlePure == args = NoArgs /\ ret = NoRet

Init ==
    /\ script_dir \in Dirs
    \* main, lines 371 and 388-390: the output folder is the input's folder
    /\ input_path \in {OutDir} \X Names
    /\ \E inc \in {Img0, Junk}, tplc \in [Templates -> {Absent, Junk, Img0}],
          stale \in BOOLEAN :
          fs = InitialFs(input_path, script_dir, inc, tplc, stale)
    /\ fs0 = fs
    /\ pc = "check_templates"
    /\ fg_img = NoImage
    /\ centered_artwork = NoImage
    /\ output_files = <<>>
    /\ result = NoResult
    /\ attempted = {}
    /\ succeeded = {}
    /\ removed_after = {}
    /\ IdlePure

Return(success, files, msg) ==
    [returned |-> TRUE, success |-> success, output_files |-> files,
     error_message |-> msg]

\* A variant of FirstMissing that reports the last missing template.
LastMissing(f, dir) ==
    IF \A t \in Templates : Exists(f, TemplatePath(dir, t)) THEN 0
    ELSE CHOOSE t \in Templates :
            /\ ~Exists(f, TemplatePath(dir, t))
            /\ \A u \in (t + 1)..3 : Exists(f, TemplatePath(dir, u))

\* The first template path, in the order of the loop at line 276, that does
\* not exist; 0 when all three exist.
FirstMissing(f, dir) ==
    IF \A t \in Templates : Exists(f, TemplatePath(dir, t)) THEN 0
    ELSE CHOOSE t \in Templates :
            /\ ~Exists(f, TemplatePath(dir, t))
            /\ \A u \in 1..(t - 1) : Exists(f, TemplatePath(dir, u))

\* process_image, lines 275-280
CheckTemplates ==
    /\ pc = "check_templates"
    /\ LET m == FirstMissing(fs, script_dir) IN
         IF m # 0
         THEN /\ result' = Return(FALSE, <<>>,
                     <<"Missing template file: ">> \o TemplatePath(script_dir, m))
              /\ pc' = "returned"
         ELSE /\ pc' = "open_input"
              /\ UNCHANGED result
    /\ UNCHANGED <<fs, fs0, script_dir, input_path, fg_img, centered_artwork,
                   output_files, attempted, succeeded, removed_after, args, ret>>

\* A variant of OpenInput whose except branch does not return.
OpenInputFallsThrough ==
    /\ pc = "open_input"
    /\ fg_img' = fs[input_path]
    /\ pc' = "border"
    /\ UNCHANGED <<fs, fs0, script_dir, input_path, centered_artwork, result,
                   output_files, attempted, succeeded, removed_after, args, ret>>

\* process_image, lines 282-289: every exception of open/convert is caught
OpenInput ==
    /\ pc = "open_input"
    /\ IF Decodable(fs[input_path])
       THEN /\ fg_img' = fs[input_path]
            /\ pc' = "border"
            /\ UNCHANGED result
       ELSE /\ result' = Return(FALSE, <<>>,
                   <<"Error opening image: ", "cannot identify image file">>)
            /\ pc' = "returned"
            /\ UNCHANGED fg_img
    /\ UNCHANGED <<fs, fs0, script_dir, input_path, centered_artwork,
                   output_files, attempted, succeeded, removed_after, args, ret>>

\* create_bordered_image, lines 138-177, called at line 292: writes the
\* centered artwork to output.png and the bordered canvas to print.png
CreateBorderedImage ==
    /\ pc = "border"
    /\ fs' = [fs EXCEPT ![OutputPngPath] = Centered, ![PrintPngPath] = Bordered]
    /\ pc' = "load_centered"
    /\ UNCHANGED <<fs0, script_dir, input_path, fg_img, centered_artwork,
                   output_files, result, attempted, succeeded, removed_after,
                   args, ret>>

\* process_image, lines 295-304
LoadCenteredArtwork ==
    /\ pc = "load_centered"
    /\ IF ~Exists(fs, OutputPngPath)
       THEN /\ result' = Return(FALSE, <<>>,
                   <<"Missing intermediate file: ">> \o OutputPngPath)
            /\ pc' = "returned"
            /\ UNCHANGED <<centered_artwork, output_files>>
       ELSE IF Decodable(fs[OutputPngPath])
       THEN /\ centered_artwork' = fs[OutputPngPath]
            /\ output_files' = <<>>
            /\ pc' = "template1"
            /\ UNCHANGED result
       ELSE /\ pc' = "raised"
            /\ UNCHANGED <<centered_artwork, output_files, result>>
    /\ UNCHANGED <<fs, fs0, script_dir, input_path, fg_img, attempted,
                   succeeded, removed_after, args, ret>>

TemplatePc(t) == <<"template1", "template2", "template3">>[t]
AfterTemplate(t) == IF t < 3 THEN TemplatePc(t + 1) ELSE "cleanup"

\* create_multiplied_image, lines 181-226, as called at lines 308, 318, 329.
\* Image.open of the template (line 200) is not inside any try: when the
\* template cannot be decoded the exception leaves process_image and main.
\* np.linalg.LinAlgError (line 108) makes the call return False (line 215);
\* whether the solver raises it is an outcome of the call.
CreateMultipliedImage(t) ==
    /\ pc = TemplatePc(t)
    /\ attempted' = attempted \cup {t}
    /\ IF ~Decodable(fs[TemplatePath(script_dir, t)])
       THEN /\ pc' = "raised"
            /\ UNCHANGED <<fs, output_files, succeeded>>
       ELSE \E singular \in BOOLEAN :
              IF singular
              THEN /\ pc' = AfterTemplate(t)
                   /\ UNCHANGED <<fs, output_files, succeeded>>
              ELSE /\ fs' = [fs EXCEPT ![OutputPath(t)] = Mult(t)]
                   /\ output_files' = Append(output_files, OutputPath(t))
                   /\ succeeded' = succeeded \cup {t}
                   /\ pc' = AfterTemplate(t)
    /\ UNCHANGED <<fs0, script_dir, input_path, fg_img, centered_artwork,
                   result, removed_after, args, ret>>

\* A variant of FinalResult with the test of line 344 inverted.
FinalResultInverted(files) ==
    IF Len(files) = 0
    THEN Return(TRUE, files, <<>>)
    ELSE Return(FALSE, <<>>, <<"Failed to create any output images">>)

\* process_image, lines 344-347
FinalResult(files) ==
    IF Len(files) > 0
    THEN Return(TRUE, files, <<>>)
    ELSE Return(FALSE, <<>>, <<"Failed to create any output images">>)

\* delete_file (lines 122-134) called at line 338, then lines 344-347.
\* os.remove may raise OSError, which delete_file catches.
Cleanup ==
    /\ pc = "cleanup"
    /\ IF Exists(fs, OutputPngPath)
       THEN \E removed \in BOOLEAN :
              IF removed
              THEN /\ fs' = [fs EXCEPT ![OutputPngPath] = Absent]
                   /\ removed_after' = attempted
              ELSE UNCHANGED <<fs, removed_after>>
       ELSE UNCHANGED <<fs, removed_after>>
    /\ result' = FinalResult(output_files)
    /\ pc' = "returned"
    /\ UNCHANGED <<fs0, script_dir, input_path, fg_img, centered_artwork,
                   output_files, attempted, succeeded, args, ret>>

Next ==
    \/ CheckTemplates
    \/ OpenInput
    \/ CreateBorderedImage
    \/ LoadCenteredArtwork
    \/ \E t \in Templates : CreateMultipliedImage(t)
    \/ Cleanup

Spec == Init /\ [][Next]_vars

(***************************************************************************)
(* Claims about process_image (checked under Spec)                         *)
(***************************************************************************)
Ended == pc \in {"returned", "raised"}

\* The output paths of the templates in S, in template order
OutputsOf(S) ==
    LET F[i \in 0..3] ==
          IF i = 0 THEN <<>>
          ELSE IF i \in S THEN Append(F[i - 1], OutputPath(i)) ELSE F[i - 1]
    IN F[3]

\* C1: once the composites have started, the run ends only after the
\* composite of every one of the three templates has been attempted, whatever
\* failed before, and it ends by returning a result that lists the outputs of
\* the templates that succeeded.
C1_EveryTemplateAttempted ==
    (Ended /\ centered_artwork # NoImage) =>
        /\ attempted = Templates
        /\ result.returned
        /\ result.success => result.output_files = OutputsOf(succeeded)

\* C2: the three template files hold, at every moment of a run, what they
\* held when the run started, also when the output folder is the template
\* directory.
C2_TemplatesNeverMutated ==
    \A t \in Templates :
        fs[TemplatePath(script_dir, t)] = fs0[TemplatePath(script_dir, t)]

\* C3: a run that got past the border stage ends with output.png deleted, the
\* deletion having been made after all three composites finished.
C3_IntermediateDeletedAtEnd ==
    (Ended /\ fg_img # NoImage) =>
        /\ ~Exists(fs, OutputPngPath)
        /\ removed_after = Templates

\* C4: the returned triple: success exactly when at least one composite
\* succeeded; on success the outputs of the successful composites in template
\* order and an empty message; on failure no outputs and a non-empty message.
C4_ResultShape ==
    result.returned =>
        /\ result.success <=> (succeeded # {})
        /\ result.success =>
              /\ result.output_files = OutputsOf(succeeded)
              /\ result.error_message = <<>>
        /\ ~result.success =>
              /\ result.output_files = <<>>
              /\ result.error_message # <<>>

\* A run that returned success with all three composites listed
C4_Witness ==
    /\ result.returned
    /\ result.success
    /\ succeeded = Templates
    /\ Len(result.output_files) = 3

\* C5: when a template is missing at the start, nothing in the file system
\* ever changes, the input image is never loaded, no later stage runs, and the
\* result is (False, [], message naming the first missing template path in
\* the order show.png, show2.jpg, show3.png).
C5_MissingTemplateFailsFast ==
    (\E t \in Templates : fs0[TemplatePath(script_dir, t)] = Absent) =>
        /\ fs = fs0
        /\ fg_img = NoImage
        /\ pc \in {"check_templates", "returned"}
        /\ pc = "returned" =>
              \E m \in Templates :
                 /\ fs0[TemplatePath(script_dir, m)] = Absent
                 /\ \A u \in 1..(m - 1) : fs0[TemplatePath(script_dir, u)] # Absent
                 /\ result = [returned |-> TRUE, success |-> FALSE,
                              output_files |-> <<>>,
                              error_message |->
                                  <<"Missing template file: ", script_dir,
                                    TemplateNames[m]>>]

\* A run that returned with show.png present and both show2.jpg and show3.png
\* missing, in an output folder that holds earlier artefacts
C5_Witness ==
    /\ pc = "returned"
    /\ fs0[TemplatePath(script_dir, 1)] # Absent
    /\ fs0[TemplatePath(script_dir, 2)] = Absent
    /\ fs0[TemplatePath(script_dir, 3)] = Absent
    /\ fs0[PrintPngPath] = Img0

\* C6: when all three templates exist and the input image cannot be decoded,
\* nothing in the file system ever changes, no stage after the load runs, and
\* the result is (False, [], non-empty message).
C6_UndecodableInputFails ==
    (/\ \A t \in Templates : fs0[TemplatePath(script_dir, t)] # Absent
     /\ fs0[input_path] = Junk) =>
        /\ fs = fs0
        /\ pc \in {"check_templates", "open_input", "returned"}
        /\ attempted = {}
        /\ centered_artwork = NoImage
        /\ pc = "returned" =>
              /\ result.success = FALSE
              /\ result.output_files = <<>>
              /\ result.error_message # <<>>

\* A run that returned on an undecodable input with all templates present and
\* earlier artefacts in the output folder
C6_Witness ==
    /\ pc = "returned"
    /\ \A t \in Templates : fs0[TemplatePath(script_dir, t)] # Absent
    /\ fs0[input_path] = Junk
    /\ input_path # PrintPngPath
    /\ fs0[PrintPngPath] = Img0

\* C10: the input image file holds, at every moment of a run, what it held
\* when the run started.
C10_InputNeverTouched ==
    fs[input_path] = fs0[input_path]

(***************************************************************************)
(* Python floats (IEEE-754 binary64), non-negative values only.            *)
(* A non-zero float is [sig, exp]: sig is its 53-bit significand, most     *)
(* significant bit first (sig[1] = 1), and its value is sig * 2^exp.       *)
(***************************************************************************)
Precision == 53

FZero == [sig |-> <<>>, exp |-> 0]

\* The number of binary digits of a natural number below 2^30
BitLength(n) ==
    CHOOSE k \in 0..30 : n < 2 ^ k /\ (k = 0 \/ 2 ^ (k - 1) <= n)

\* The binary digits of a natural number, most significant first
NatBits(n) ==
    LET k == BitLength(n) IN [i \in 1..k |-> (n \div (2 ^ (k - i))) % 2]

\* The natural number a bit sequence denotes
RECURSIVE BitsNat(_)
BitsNat(b) ==
    IF b = <<>> THEN 0
    ELSE 2 * BitsNat(SubSeq(b, 1, Len(b) - 1)) + b[Len(b)]

Zeros(n) == [i \in 1..n |-> 0]

\* A bit sequence without its leading zeros
StripZeros(b) ==
    IF \A i \in 1..Len(b) : b[i] = 0 THEN <<>>
    ELSE LET k == CHOOSE i \in 1..Len(b) :
                     b[i] = 1 /\ \A j \in 1..(i - 1) : b[j] = 0
         IN SubSeq(b, k, Len(b))

\* b + 1 for a bit sequence that holds a 0
IncBits(b) ==
    LET j == CHOOSE k \in 1..Len(b) :
                 b[k] = 0 /\ \A i \in (k + 1)..Len(b) : b[i] = 1
    IN [i \in 1..Len(b) |-> IF i < j THEN b[i] ELSE IF i = j THEN 1 ELSE 0]

\* Round to nearest, ties to even.  The exact value is (bits + d) * 2^e with
\* 0 <= d < 1 and d > 0 exactly when sticky; bits has no leading zero and,
\* when sticky, more than Precision digits.
RoundBits(bits, sticky, e) ==
    LET n == Len(bits) IN
    IF n = 0 THEN FZero
    ELSE IF n <= Precision
    THEN [sig |-> bits \o Zeros(Precision - n), exp |-> e - (Precision - n)]
    ELSE LET keep == SubSeq(bits, 1, Precision)
             guard == bits[Precision + 1]
             rest == sticky \/ \E i \in (Precision + 2)..n : bits[i] = 1
             up == guard = 1 /\ (rest \/ keep[Precision] = 1)
         IN IF ~up THEN [sig |-> keep, exp |-> e + (n - Precision)]
            ELSE IF \A i \in 1..Precision : keep[i] = 1
            THEN [sig |-> <<1>> \o Zeros(Precision - 1),
                  exp |-> e + (n - Precision) + 1]
            ELSE [sig |-> IncBits(keep), exp |-> e + (n - Precision)]

\* float(n) for an int n >= 0
FromInt(n) == RoundBits(NatBits(n), FALSE, 0)

\* The 14 binary digits of a base 2^14 digit
LimbBits(d) == LET b == NatBits(d) IN Zeros(14 - Len(b)) \o b

\* Long division in base 2^14: the next n digits of r / b after the point,
\* appended to q, and the remainder left (r < b < 2^16)
RECURSIVE LongDivide(_, _, _, _)
LongDivide(r, b, n, q) ==
    IF n = 0 THEN [quot |-> q, rem |-> r]
    ELSE LET t == r * 16384
         IN LongDivide(t % b, b, n - 1, q \o LimbBits(t \div b))

\* a / b for ints 0 <= a < 2^30 and 0 < b < 2^16: the correctly rounded
\* quotient.  Five base 2^14 digits after the point give at least 54
\* significant binary digits, the rest is in the remainder.
IntDiv(a, b) ==
    IF a = 0 THEN FZero
    ELSE LET d == LongDivide(a % b, b, 5, NatBits(a \div b))
         IN RoundBits(StripZeros(d.quot), d.rem # 0, -70)

\* Digit k (k = 0 is the least significant) of a bit sequence read in base
\* 2^14, so that a product of two digits stays below 2^31
Limb(bits, k) ==
    LET n == Len(bits)
        hi == n - 14 * k
        lo == IF hi - 13 < 1 THEN 1 ELSE hi - 13
    IN IF hi < 1 THEN 0 ELSE BitsNat(SubSeq(bits, lo, hi))

\* Schoolbook multiplication of two significands of four base 2^14 digits:
\* the sum of column k and the carry into it, carried on to column k + 1
RECURSIVE MulColumns(_, _, _, _, _)
MulColumns(A, B, k, carry, acc) ==
    IF k > 7 THEN acc
    ELSE LET Term(i) == IF k - i >= 0 /\ k - i <= 3
                        THEN A[i + 1] * B[k - i + 1] ELSE 0
             total == Term(0) + Term(1) + Term(2) + Term(3) + carry
         IN MulColumns(A, B, k + 1, total \div 16384,
                       LimbBits(total % 16384) \o acc)

\* The product of two bit sequences of at most 56 digits
BigMul(a, b) ==
    StripZeros(MulColumns(<<Limb(a, 0), Limb(a, 1), Limb(a, 2), Limb(a, 3)>>,
                          <<Limb(b, 0), Limb(b, 1), Limb(b, 2), Limb(b, 3)>>,
                          0, 0, <<>>))

\* x * y
FMul(x, y) ==
    IF x = FZero \/ y = FZero THEN FZero
    ELSE RoundBits(BigMul(x.sig, y.sig), FALSE, x.exp + y.exp)

\* x < y
FLess(x, y) ==
    IF y = FZero THEN FALSE
    ELSE IF x = FZero THEN TRUE
    ELSE IF x.exp # y.exp THEN x.exp < y.exp
    ELSE \E k \in 1..Precision :
            /\ x.sig[k] < y.sig[k]
            /\ \A i \in 1..(k - 1) : x.sig[i] = y.sig[i]

\* max(x, y): the first argument unless the second is greater
FMax(x, y) == IF FLess(x, y) THEN y ELSE x

\* int(x): truncation; the floats truncated here are below 2^31
Trunc(x) ==
    IF x = FZero \/ Precision + x.exp <= 0 THEN 0
    ELSE IF x.exp <= 0 THEN BitsNat(SubSeq(x.sig, 1, Precision + x.exp))
    ELSE BitsNat(x.sig \o Zeros(x.exp))

\* The pipeline's variables while a pure function is studied on its own
IdlePipeline ==
    /\ fs = [p \in Paths |-> Absent]
    /\ fs0 = fs
    /\ script_dir = OtherDir
    /\ input_path = Join(OutDir, "art.png")
    /\ pc = "idle"
    /\ fg_img = NoImage
    /\ centered_artwork = NoImage
    /\ output_files = <<>>
    /\ result = NoResult
    /\ attempted = {}
    /\ succeeded = {}
    /\ removed_after = {}

(***************************************************************************)
(* resize_cover                                                            *)
(***************************************************************************)
MaxSide == 24          \* largest width and height of the input image
MaxTarget == 3         \* largest side of the small target boxes

\* create_bordered_image, line 161: the box resize_cover is called with
box2_w == 3567
box2_h == 5374

\* resize_cover, lines 40-56.  img.resize raises ValueError when a side of
\* the new size is below 1; otherwise the result of crop has the size of the
\* crop box, whether or not the box lies inside the resized image.
resize_cover(ow, oh, target_w, target_h) ==
    LET scale_w == IntDiv(target_w, ow)
        scale_h == IntDiv(target_h, oh)
        scale == FMax(scale_w, scale_h)
        new_w == Trunc(FMul(FromInt(ow), scale))
        new_h == Trunc(FMul(FromInt(oh), scale))
        left == (new_w - target_w) \div 2
        top == (new_h - target_h) \div 2
        right == left + target_w
        bottom == top + target_h
    IN IF new_w < 1 \/ new_h < 1
       THEN [kind |-> "raised"]
       ELSE [kind |-> "image", size |-> <<right - left, bottom - top>>,
             resized |-> <<new_w, new_h>>,
             box |-> <<left, top, right, bottom>>]

ResizeTargets ==
    {<<box2_w, box2_h>>} \cup ((1..MaxTarget) \X (1..MaxTarget))

InitResize ==
    /\ IdlePipeline
    /\ \E ow \in 1..MaxSide, oh \in 1..MaxSide, t \in ResizeTargets :
          args = [kind |-> "resize_cover", ow |-> ow, oh |-> oh,
                  target_w |-> t[1], target_h |-> t[2]]
    /\ ret = NoRet

CallResizeCover ==
    /\ args.kind = "resize_cover"
    /\ ret = NoRet
    /\ ret' = resize_cover(args.ow, args.oh, args.target_w, args.target_h)
    /\ UNCHANGED <<pipeVars, args>>

SpecResize == InitResize /\ [][CallResizeCover]_vars

\* C7: resize_cover returns an image of exactly target_w x target_h pixels
\* whose crop box lies inside the resized image, for every input size and
\* every target.
C7_ResizeCoverCovers ==
    ret # NoRet =>
        /\ ret.kind = "image"
        /\ ret.size = <<args.target_w, args.target_h>>
        /\ 0 <= ret.box[1]
        /\ ret.box[3] <= ret.resized[1]
        /\ 0 <= ret.box[2]
        /\ ret.box[4] <= ret.resized[2]

(***************************************************************************)
(* apply_multiply_blend, one channel of one pixel                          *)
(***************************************************************************)
MaxChannel == 255      \* 8-bit channels

\* A variant of the blend that normalises by 256.
multiply_blend_256(b, o) ==
    Trunc(FMul(FMul(IntDiv(b, 256), IntDiv(o, 256)), FromInt(255))) % 256

\* apply_multiply_blend, lines 63-68: both channels are divided by 255.0,
\* multiplied, scaled by 255 and cast to uint8 (truncation).
multiply_blend(b, o) ==
    Trunc(FMul(FMul(IntDiv(b, 255), IntDiv(o, 255)), FromInt(255))) % 256

InitBlend ==
    /\ IdlePipeline
    /\ \E b \in 0..MaxChannel, o \in 0..MaxChannel :
          args = [kind |-> "blend", base |-> b, overlay |-> o]
    /\ ret = NoRet

CallMultiplyBlend ==
    /\ args.kind = "blend"
    /\ ret = NoRet
    /\ ret' = [kind |-> "channel",
               value |-> multiply_blend(args.base, args.overlay)]
    /\ UNCHANGED <<pipeVars, args>>

SpecBlend == InitBlend /\ [][CallMultiplyBlend]_vars

\* C8: blending with a white channel (255) as either operand returns the
\* other operand unchanged.
C8_WhiteIsIdentity ==
    ret # NoRet =>
        /\ args.overlay = MaxChannel => ret.value = args.base
        /\ args.base = MaxChannel => ret.value = args.overlay

\* A mid-grey base blended with a white overlay came back unchanged
C8_Witness ==
    /\ ret # NoRet
    /\ args.base = 17
    /\ args.overlay = MaxChannel
    /\ ret.value = 17

(***************************************************************************)
(* find_perspective_coeffs                                                 *)
(*                                                                         *)
(* np.linalg.solve (LAPACK gesv) is LU factorisation with partial pivoting *)
(* followed by substitution, and raises LinAlgError on a zero pivot.  It   *)
(* is modelled in exact rational arithmetic: a rational is <<num, den>>    *)
(* in lowest terms with den > 0.                                           *)
(***************************************************************************)
MaxDim == 5            \* largest width and height of the small source images

Abs(n) == IF n < 0 THEN -n ELSE n

RECURSIVE Gcd(_, _)
Gcd(a, b) == IF b = 0 THEN a ELSE Gcd(b, a % b)

Rat(n, d) ==
    LET g == Gcd(Abs(n), Abs(d))
        sgn == IF d < 0 THEN -1 ELSE 1
    IN <<sgn * (n \div g), sgn * (d \div g)>>

RInt(n) == <<n, 1>>
RSub(p, q) == Rat(p[1] * q[2] - q[1] * p[2], p[2] * q[2])
RMul(p, q) == Rat(p[1] * q[1], p[2] * q[2])
RDiv(p, q) == Rat(p[1] * q[2], p[2] * q[1])
RAbsLess(p, q) == Abs(p[1]) * q[2] < Abs(q[1]) * p[2]

\* The sequences <<F(1), ..., F(8)>> and <<F(1), ..., F(9)>>
Seq8(F(_)) == <<F(1), F(2), F(3), F(4), F(5), F(6), F(7), F(8)>>
Seq9(F(_)) == <<F(1), F(2), F(3), F(4), F(5), F(6), F(7), F(8), F(9)>>

\* A variant of PerspectiveRows with x and y exchanged in the first row of
\* each pair.
PerspectiveRowsSwapped(source_corners, dest_corners) ==
    LET Row(r) ==
        LET i == (r - 1) \div 2
            x == source_corners[2 * i + 1]
            y == source_corners[2 * i + 2]
            X == dest_corners[2 * i + 1]
            Y == dest_corners[2 * i + 2]
        IN IF r % 2 = 1
           THEN <<y, x, 1, 0, 0, 0, -X * x, -X * y>>
           ELSE <<0, 0, 0, x, y, 1, -Y * x, -Y * y>>
    IN Seq8(Row)

\* find_perspective_coeffs, lines 77-86: the matrix, two rows for each of
\* the four correspondences (sequences are indexed from 1)
PerspectiveRows(source_corners, dest_corners) ==
    LET Row(r) ==
        LET i == (r - 1) \div 2
            x == source_corners[2 * i + 1]
            y == source_corners[2 * i + 2]
            X == dest_corners[2 * i + 1]
            Y == dest_corners[2 * i + 2]
        IN IF r % 2 = 1
           THEN <<x, y, 1, 0, 0, 0, -X * x, -X * y>>
           ELSE <<0, 0, 0, x, y, 1, -Y * x, -Y * y>>
    IN Seq8(Row)

\* The augmented matrix [A | B] over the rationals
Augmented(A, B) ==
    LET Row(r) == LET Entry(c) == IF c = 9 THEN RInt(B[r]) ELSE RInt(A[r][c])
                  IN Seq9(Entry)
    IN Seq8(Row)

\* F(v), with v evaluated once before F is applied
Strict(v, F(_)) == CHOOSE r \in {F(x) : x \in {v}} : TRUE

\* The first row at or below k whose entry in column k is largest in
\* absolute value
PivotRow(M, k) ==
    CHOOSE p \in k..8 :
        /\ \A q \in k..8 : ~RAbsLess(M[p][k], M[q][k])
        /\ \A q \in k..(p - 1) : RAbsLess(M[q][k], M[p][k])

\* One step of the factorisation: rows k and p exchanged, then the entries
\* below the pivot eliminated
EliminateColumn(M, k, p) ==
    LET S == [M EXCEPT ![k] = M[p], ![p] = M[k]]
        Row(r) ==
            IF r <= k THEN S[r]
            ELSE LET f == RDiv(S[r][k], S[k][k])
                     Entry(c) == RSub(S[r][c], RMul(f, S[k][c]))
                 IN Seq9(Entry)
    IN Seq8(Row)

\* Elimination below the diagonal, column k onwards; singular on a zero
\* pivot
RECURSIVE Eliminate(_, _)
Eliminate(M, k) ==
    IF k > 8 THEN [singular |-> FALSE, upper |-> M]
    ELSE LET p == PivotRow(M, k) IN
         IF M[p][k][1] = 0 THEN [singular |-> TRUE]
         ELSE Strict(EliminateColumn(M, k, p), LAMBDA E : Eliminate(E, k + 1))

\* Back substitution on the upper triangular system U: x[i..8] from x[i+1..8]
RECURSIVE BackSubstitute(_, _, _)
BackSubstitute(U, i, x) ==
    IF i = 0 THEN x
    ELSE LET Rest[j \in i..8] ==
                 IF j = i THEN U[i][9]
                 ELSE RSub(Rest[j - 1], RMul(U[i][j], x[j - i]))
         IN Strict(<<RDiv(Rest[8], U[i][i])>> \o x,
                   LAMBDA y : BackSubstitute(U, i - 1, y))

\* np.linalg.solve(A, B)
Solve(A, B) ==
    Strict(Eliminate(Augmented(A, B), 1),
           LAMBDA U : IF U.singular THEN [kind |-> "LinAlgError"]
                      ELSE [kind |-> "coeffs",
                            value |-> BackSubstitute(U.upper, 8, <<>>)])

\* find_perspective_coeffs, lines 72-91; the system it built is kept with
\* the result
find_perspective_coeffs(source_corners, dest_corners) ==
    LET A == PerspectiveRows(source_corners, dest_corners)
        B == dest_corners
        s == Solve(A, B)
    IN [kind |-> s.kind,
        value |-> IF s.kind = "coeffs" THEN s.value ELSE <<>>,
        matrix |-> A,
        rhs |-> B]

\* apply_perspective_transform, line 102: the corners of a w x h image
SourceCorners(w, h) == <<0, 0, w, 0, w, h, 0, h>>

\* Destination corners tried: the source corners themselves, the source
\* corners moved by (1, 1), a quadrilateral in perspective, and four points
\* on one line
DestCorners(w, h) ==
    {SourceCorners(w, h),
     <<1, 1, w + 1, 1, w + 1, h + 1, 1, h + 1>>,
     <<0, 0, w, 1, w + 1, h, 0, h + 1>>,
     <<0, 0, 1, 1, 2, 2, 3, 3>>}

InitCoeffs ==
    /\ IdlePipeline
    /\ \/ \E w \in 1..MaxDim, h \in 1..MaxDim :
            \E d \in DestCorners(w, h) :
               args = [kind |-> "coeffs", source |-> SourceCorners(w, h),
                       dest |-> d]
       \* create_multiplied_image, lines 195 and 197: the sizes warped
       \/ \E sz \in {<<1071, 1500>>, <<393, 654>>} :
            args = [kind |-> "coeffs", source |-> SourceCorners(sz[1], sz[2]),
                    dest |-> SourceCorners(sz[1], sz[2])]
    /\ ret = NoRet

CallFindPerspectiveCoeffs ==
    /\ args.kind = "coeffs"
    /\ ret = NoRet
    /\ ret' = find_perspective_coeffs(args.source, args.dest)
    /\ UNCHANGED <<pipeVars, args>>

SpecCoeffs == InitCoeffs /\ [][CallFindPerspectiveCoeffs]_vars

\* The identity transform a=1, b=0, c=0, d=0, e=1, f=0, g=0, h=0
IdentityCoeffs ==
    <<RInt(1), RInt(0), RInt(0), RInt(0), RInt(1), RInt(0), RInt(0), RInt(0)>>

\* C9: for the identity correspondences of a W x H image the system has the
\* two rows [x,y,1,0,0,0,-X*x,-X*y] -> X and [0,0,0,x,y,1,-Y*x,-Y*y] -> Y for
\* each correspondence (x,y) -> (X,Y), it is not singular, and its solution
\* is the identity transform, which satisfies every equation of the system.
C9_IdentityCorrespondences ==
    (ret # NoRet /\ args.dest = args.source) =>
        /\ \A i \in 0..3 :
              LET x == args.source[2 * i + 1]
                  y == args.source[2 * i + 2]
                  X == args.dest[2 * i + 1]
                  Y == args.dest[2 * i + 2]
              IN /\ ret.matrix[2 * i + 1] = <<x, y, 1, 0, 0, 0, -X * x, -X * y>>
                 /\ ret.rhs[2 * i + 1] = X
                 /\ ret.matrix[2 * i + 2] = <<0, 0, 0, x, y, 1, -Y * x, -Y * y>>
                 /\ ret.rhs[2 * i + 2] = Y
        /\ ret.kind = "coeffs"
        /\ ret.value = IdentityCoeffs
        /\ \A r \in 1..8 : ret.matrix[r][1] + ret.matrix[r][5] = ret.rhs[r]

\* The solver returned for the identity correspondences of the 1071 x 1500
\* foreground
C9_Witness ==
    /\ ret # NoRet
    /\ args.kind = "coeffs"
    /\ args.source = SourceCorners(1071, 1500)
    /\ args.dest = args.source
    /\ ret.kind = "coeffs"

====
